---- MODULE Spec2Model ----
(***************************************************************************)
(* A model of the BUDC SCPI core (src/src/budc_scpi.c): the line framer    *)
(* budc_send_raw_command, the retrying getters, the setters and the        *)
(* lock-wait orchestrator, together with the device at the other end of    *)
(* the serial line.  Strings are sequences of one-character strings.       *)
(***************************************************************************)
EXTENDS Integers, Sequences, FiniteSets, TLC

VARIABLES
  platform,  \* "posix" | "win": which clock() and which pre-read delay the build has
  dev,       \* the handle: "null" | "open"
  op,        \* the API call in progress ("idle": none)
  timeout,   \* timeout_ms of the call in progress
  pc,        \* position of the host inside the call
  getter,    \* the getter whose retry loop is running ("none": none)
  i,         \* the retry loop's index
  cmd,       \* command of the budc_send_raw_command invocation in progress
  sres,      \* return value of the last budc_send_raw_command
  resp,      \* the response buffer of the last budc_send_raw_command
  respFresh, \* ghost: every byte of resp answers the invocation that read it
  gres,      \* return value of the last getter
  out,       \* the getter's output variable (*freq_ghz, *is_locked, ...)
  res,       \* return value of the API call
  wall,      \* wall-clock ms since the lock-wait call started (MaxWall: that or more)
  clk,       \* what clock() reports, in ms, since the lock-wait call started
  start,     \* budc_wait_for_lock's start
  rxbuf,     \* the port's input buffer: bytes tagged with their freshness
  devq,      \* command lines the device has received and not yet answered
  io,        \* port operations of the current budc_send_raw_command invocation
             \* ("read": one that returned bytes, "read0": one that returned none)
  attempts,  \* ghost: the kinds of outcome the attempts of the current getter call had
  nsend,     \* ghost: budc_send_raw_command invocations of the current getter or setter call
  nlockq,    \* ghost: a LOCK? line was written during the API call
  freq,      \* the unit and value the caller passes to budc_set_frequency_*
  devfreq,   \* the frequency, in hertz, an echoing device has stored (0: none yet)
  port,      \* the sp_port of budc_connect: "none" | "alloc" | "open" | "corrupt"
  conf,      \* the sp_set_* steps of the budc_connect in progress that failed
  wire,      \* the bytes the sp_blocking_write of the invocation in progress wrote
  app,       \* the GUI: "off" (no GUI), "running", or "closed" (its window was closed)
  is_connected,      \* AppState.is_connected
  selected_port_idx, \* AppState.selected_port_idx
  port_count,        \* AppState.port_count, the length of port_list (-1: none)
  script,    \* the library calls the GUI handler in progress has still to make
  lost       \* ghost: a budc_connect result replaced a handle that was live

\* what the caller tunes to and what the device has stored
tuning == <<freq, devfreq>>
\* the resources behind the handle
handle == <<port, conf>>
\* the GUI's AppState; AppState.dev is dev
gui == <<app, is_connected, selected_port_idx, port_count, script, lost>>

vars == <<platform, dev, op, timeout, pc, getter, i, cmd, sres, resp, respFresh,
          gres, out, res, wall, clk, start, rxbuf, devq, io, attempts, nsend,
          nlockq, tuning, handle, wire, gui>>

-----------------------------------------------------------------------------
(* Bounds of the model *)

\* command lines the device may hold unanswered
MaxPending == 1
\* horizon of a lock wait, in ms of wall-clock time
MaxWall == 1000
\* longest reply text drawn in SpecReply
MaxLen == 3
\* processor time, in ms, the process may consume during one polling round
CpuTick == 150
\* serial ports budc_find_ports may list
MaxPorts == 2

(* Program constants *)
READ_TIMEOUT_MS == 800
MAX_RETRIES == 3
TEMP_RETRIES == 5
RETRY_DELAY_MS == 100
TEMP_RETRY_DELAY_MS == 250
POLL_INTERVAL_MS == 200
SETTLE_DELAY_MS == 200
WIN_PREREAD_DELAY_MS == 100
TEMP_MIN == -50
TEMP_MAX == 150
IDN_MIN_LEN == 5
FULL_COMMAND_SIZE == 256
FREQ_DIGITS == 10
RAW_RESPONSE_SIZE == 512

-----------------------------------------------------------------------------
(* Characters and the C library's string functions *)

CR == "\r"
LF == "\n"
COMMAND_TERMINATOR == <<CR, LF>>

isspace(c) == c \in {" ", "\t", "\n", "\r", "\f"}
isdigit(c) == c \in {"0", "1", "2", "3", "4", "5", "6", "7", "8", "9"}

DigitVal(c) ==
  CASE c = "0" -> 0 [] c = "1" -> 1 [] c = "2" -> 2 [] c = "3" -> 3
    [] c = "4" -> 4 [] c = "5" -> 5 [] c = "6" -> 6 [] c = "7" -> 7
    [] c = "8" -> 8 [] c = "9" -> 9

RECURSIVE Pow10(_)
Pow10(n) == IF n = 0 THEN 1 ELSE 10 * Pow10(n - 1)

Min(a, b) == IF a < b THEN a ELSE b

RECURSIVE SkipSpace(_)
SkipSpace(s) == IF s # <<>> /\ isspace(Head(s)) THEN SkipSpace(Tail(s)) ELSE s

RECURSIVE DropTrailingSpace(_)
DropTrailingSpace(s) ==
  IF Len(s) > 1 /\ isspace(s[Len(s)])
  THEN DropTrailingSpace(SubSeq(s, 1, Len(s) - 1))
  ELSE s

\* mutant: the response is returned as read
trim_whitespace_None(s) == s

\* trim_whitespace: the string without leading and trailing white space
trim_whitespace(s) == IF s = <<>> THEN s ELSE DropTrailingSpace(SkipSpace(s))

\* the longest prefix of s made of digits
RECURSIVE LeadDigits(_)
LeadDigits(s) ==
  IF s # <<>> /\ isdigit(Head(s)) THEN <<Head(s)>> \o LeadDigits(Tail(s)) ELSE <<>>

RECURSIVE DigitsValue(_, _)
DigitsValue(s, acc) ==
  IF s = <<>> THEN acc ELSE DigitsValue(Tail(s), 10 * acc + DigitVal(Head(s)))

StripSign(s) == IF s # <<>> /\ Head(s) \in {"-", "+"} THEN Tail(s) ELSE s
SignOf(s) == IF s # <<>> /\ Head(s) = "-" THEN -1 ELSE 1

\* atoi: white space, an optional sign, then the leading digits; 0 without digits
atoi(s) ==
  LET t == SkipSpace(s)
  IN  SignOf(t) * DigitsValue(LeadDigits(StripSign(t)), 0)

\* atof: white space, an optional sign, digits, an optional point and digits.
\* The value is n / 10^d, kept exact.
atof(s) ==
  LET t == SkipSpace(s)
      u == StripSign(t)
      ip == LeadDigits(u)
      r == SubSeq(u, Len(ip) + 1, Len(u))
      fp == IF r # <<>> /\ Head(r) = "." THEN LeadDigits(Tail(r)) ELSE <<>>
  IN  [n |-> SignOf(t) * DigitsValue(ip \o fp, 0), d |-> Len(fp)]

NumGE(v, k) == v.n >= k * Pow10(v.d)
NumLE(v, k) == v.n <= k * Pow10(v.d)
NumIsZero(v) == v.n = 0

\* strchr(command, '?')
IsQuery(c) == \E k \in 1..Len(c) : c[k] = "?"

-----------------------------------------------------------------------------
(* Frequencies: a double is kept as the exact decimal 0.m1m2...mk * 10^e, with
   m1 and mk not zero (m empty for zero), so that a value of many digits is
   neither cut nor overflows *)

DigitChar(n) ==
  CASE n = 0 -> "0" [] n = 1 -> "1" [] n = 2 -> "2" [] n = 3 -> "3"
    [] n = 4 -> "4" [] n = 5 -> "5" [] n = 6 -> "6" [] n = 7 -> "7"
    [] n = 8 -> "8" [] n = 9 -> "9"

DigitChars(ds) == [k \in 1..Len(ds) |-> DigitChar(ds[k])]
DigitVals(s) == [k \in 1..Len(s) |-> DigitVal(s[k])]
Zeros(n) == [k \in 1..n |-> 0]

RECURSIVE NatToStr(_)
NatToStr(n) ==
  IF n < 10 THEN <<DigitChar(n)>> ELSE NatToStr(n \div 10) \o <<DigitChar(n % 10)>>

\* "%d"
IntToStr(n) == IF n < 0 THEN <<"-">> \o NatToStr(-n) ELSE NatToStr(n)

RECURSIVE StripLeadingZeros(_)
StripLeadingZeros(ds) ==
  IF ds # <<>> /\ Head(ds) = 0 THEN StripLeadingZeros(Tail(ds)) ELSE ds

RECURSIVE StripTrailingZeros(_)
StripTrailingZeros(ds) ==
  IF ds # <<>> /\ ds[Len(ds)] = 0
  THEN StripTrailingZeros(SubSeq(ds, 1, Len(ds) - 1))
  ELSE ds

\* the decimal whose digits ds have their point after the first ip of them
Decimal(neg, ds, ip) ==
  LET lead == StripLeadingZeros(ds)
      m == StripTrailingZeros(lead)
  IN  IF m = <<>> THEN [neg |-> FALSE, m |-> <<>>, e |-> 0]
      ELSE [neg |-> neg, m |-> m, e |-> ip - (Len(ds) - Len(lead))]

\* d * 10^k
Scale(d, k) == IF d.m = <<>> THEN d ELSE [d EXCEPT !.e = d.e + k]

\* ds + 1 in the last place, and the carry out of the first
RECURSIVE IncDigits(_)
IncDigits(ds) ==
  IF ds = <<>> THEN [ds |-> <<>>, c |-> 1]
  ELSE LET front == SubSeq(ds, 1, Len(ds) - 1)
           last == ds[Len(ds)]
       IN  IF last < 9 THEN [ds |-> Append(front, last + 1), c |-> 0]
           ELSE [ds |-> Append(IncDigits(front).ds, 0), c |-> IncDigits(front).c]

\* d rounded to p significant digits, ties to even, as printf rounds
RoundSig(d, p) ==
  IF Len(d.m) <= p THEN d
  ELSE LET keep == SubSeq(d.m, 1, p)
           rest == SubSeq(d.m, p + 1, Len(d.m))
           up == \/ rest[1] > 5
                 \/ rest[1] = 5 /\ (Len(rest) > 1 \/ keep[p] % 2 = 1)
           inc == IncDigits(keep)
       IN  IF ~up THEN Decimal(d.neg, keep, d.e)
           ELSE IF inc.c = 1 THEN Decimal(d.neg, <<1>>, d.e + 1)
           ELSE Decimal(d.neg, inc.ds, d.e)

\* d in positional notation, without exponent
Plain(d) ==
  LET n == Len(d.m)
      body == IF d.m = <<>> THEN <<"0">>
              ELSE IF d.e <= 0
                   THEN <<"0", ".">> \o DigitChars(Zeros(-d.e) \o d.m)
              ELSE IF n <= d.e THEN DigitChars(d.m \o Zeros(d.e - n))
              ELSE DigitChars(SubSeq(d.m, 1, d.e)) \o <<".">>
                   \o DigitChars(SubSeq(d.m, d.e + 1, n))
  IN  (IF d.neg THEN <<"-">> ELSE <<>>) \o body

\* d as d.ddde+XX, the exponent of two digits at least
Scientific(d) ==
  LET x == d.e - 1
      xs == NatToStr(IF x < 0 THEN -x ELSE x)
  IN  (IF d.neg THEN <<"-">> ELSE <<>>)
      \o <<DigitChar(d.m[1])>>
      \o (IF Len(d.m) > 1 THEN <<".">> \o DigitChars(Tail(d.m)) ELSE <<>>)
      \o <<"e", IF x < 0 THEN "-" ELSE "+">>
      \o (IF Len(xs) < 2 THEN <<"0">> \o xs ELSE xs)

\* "%.10g": p significant digits, trailing zeros dropped, scientific notation
\* when the exponent is below -4 or not below p
FormatG(d, p) ==
  LET r == RoundSig(d, p)
  IN  IF r.m = <<>> THEN <<"0">>
      ELSE IF r.e - 1 < -4 \/ r.e - 1 >= p THEN Scientific(r)
      ELSE Plain(r)

\* strtod: digits, an optional point and digits, an optional exponent; the
\* value and the text left after it
strtod(s) ==
  LET t == SkipSpace(s)
      u == StripSign(t)
      ip == LeadDigits(u)
      r1 == SubSeq(u, Len(ip) + 1, Len(u))
      hasPoint == r1 # <<>> /\ Head(r1) = "."
      fp == IF hasPoint THEN LeadDigits(Tail(r1)) ELSE <<>>
      r2 == IF hasPoint /\ (ip # <<>> \/ fp # <<>>)
            THEN SubSeq(r1, Len(fp) + 2, Len(r1)) ELSE r1
      hasE == r2 # <<>> /\ Head(r2) \in {"e", "E"}
      xs == IF hasE THEN LeadDigits(StripSign(Tail(r2))) ELSE <<>>
      xneg == hasE /\ Len(r2) > 1 /\ r2[2] = "-"
      x == IF xs = <<>> THEN 0 ELSE (IF xneg THEN -1 ELSE 1) * DigitsValue(xs, 0)
      r3 == IF xs = <<>> THEN r2
            ELSE SubSeq(r2, 1 + (Len(Tail(r2)) - Len(StripSign(Tail(r2)))) + Len(xs) + 1,
                        Len(r2))
  IN  IF ip = <<>> /\ fp = <<>>
      THEN [val |-> Decimal(FALSE, <<>>, 0), rest |-> s]
      ELSE [val |-> Scale(Decimal(SignOf(t) = -1, DigitVals(ip \o fp), Len(ip)), x),
            rest |-> r3]

\* the digits of d from 10^(hi-1) down to 10^lo
Digits(d, hi, lo) ==
  [k \in 1..(hi - lo) |->
     IF d.e - hi + k >= 1 /\ d.e - hi + k <= Len(d.m) THEN d.m[d.e - hi + k] ELSE 0]

\* a <= b for digit rows of one length
RECURSIVE RowLE(_, _)
RowLE(a, b) ==
  IF a = <<>> THEN TRUE
  ELSE IF Head(a) # Head(b) THEN Head(a) < Head(b)
  ELSE RowLE(Tail(a), Tail(b))

\* a - b for digit rows of one length, a >= b
RECURSIVE RowSub(_, _, _)
RowSub(a, b, borrow) ==
  IF a = <<>> THEN <<>>
  ELSE LET n == Len(a)
           x == a[n] - b[n] - borrow
       IN  Append(RowSub(SubSeq(a, 1, n - 1), SubSeq(b, 1, n - 1), IF x < 0 THEN 1 ELSE 0),
                  IF x < 0 THEN x + 10 ELSE x)

Max(a, b) == IF a > b THEN a ELSE b

\* |a - b| <= tol, for a and b of one sign
Within(a, b, tol) ==
  LET hi == Max(Max(a.e, b.e), Max(tol.e, 0))
      lo == Min(Min(a.e - Len(a.m), b.e - Len(b.m)), Min(tol.e - Len(tol.m), 0))
      ra == Digits(a, hi, lo)
      rb == Digits(b, hi, lo)
      diff == IF RowLE(rb, ra) THEN RowSub(ra, rb, 0) ELSE RowSub(rb, ra, 0)
  IN  /\ (a.m # <<>> /\ b.m # <<>>) => a.neg = b.neg
      /\ RowLE(diff, Digits(tol, hi, lo))

\* the frequency the scenarios tune to: 5.5 GHz
FREQ_SCENARIO == [unit |-> "GHZ", v |-> [neg |-> FALSE, m |-> <<5, 5>>, e |-> 1]]

-----------------------------------------------------------------------------
(* The commands *)

CMD_IDN == <<"*", "I", "D", "N", "?">>
CMD_FREQQ == <<"F", "R", "E", "Q", "?">>
CMD_LOCKQ == <<"L", "O", "C", "K", "?">>
CMD_TEMPQ == <<"T", "E", "M", "P", "?">>
CMD_PWRQ == <<"P", "W", "R", "?">>
\* "FREQ %.10gGHZ" for the frequency the scenarios tune to, 5.5 GHz
CMD_SETFREQ == <<"F", "R", "E", "Q", " ", "5", ".", "5", "G", "H", "Z">>

\* the setters' command lines: "FREQ %.10gGHZ", "FREQ %.10gMHZ", "FREQ %.10g",
\* "PWR %d", "SAVE", "PRESET"
UnitSuffix(u) ==
  CASE u = "GHZ" -> <<"G", "H", "Z">>
    [] u = "MHZ" -> <<"M", "H", "Z">>
    [] u = "HZ" -> <<>>

\* mutant: the value is printed with "%g", six significant digits
SetFreqCmd_DefaultPrecision(f) ==
  <<"F", "R", "E", "Q", " ">> \o FormatG(f.v, 6) \o UnitSuffix(f.unit)

SetFreqCmd(f) == <<"F", "R", "E", "Q", " ">> \o FormatG(f.v, FREQ_DIGITS) \o UnitSuffix(f.unit)
SetPowerCmd(p) == <<"P", "W", "R", " ">> \o IntToStr(p)
CMD_SAVE == <<"S", "A", "V", "E">>
CMD_PRESET == <<"P", "R", "E", "S", "E", "T">>

Setters == {"set_frequency", "set_power_level", "save_settings", "preset"}

Getters == {"identity", "frequency", "lock", "temperature", "power"}

GetterCmd(g) ==
  CASE g = "identity" -> CMD_IDN
    [] g = "frequency" -> CMD_FREQQ
    [] g = "lock" -> CMD_LOCKQ
    [] g = "temperature" -> CMD_TEMPQ
    [] g = "power" -> CMD_PWRQ

\* mutant: the temperature getter loops to MAX_RETRIES like the others
Ceiling_AllThree(g) == MAX_RETRIES

\* the bound of each getter's for loop
Ceiling(g) == IF g = "temperature" THEN TEMP_RETRIES ELSE MAX_RETRIES

\* the scpi_delay after a failed attempt
RetryDelay(g) == IF g = "temperature" THEN TEMP_RETRY_DELAY_MS ELSE RETRY_DELAY_MS

\* response_len - 1 of each getter's buffer, and of the buffer the consumers
\* pass with a raw command
RespCap(g) ==
  CASE g = "identity" -> 255
    [] g = "frequency" -> 63
    [] g = "lock" -> 15
    [] g = "temperature" -> 63
    [] g = "power" -> 15
    [] g = "none" -> RAW_RESPONSE_SIZE - 1

-----------------------------------------------------------------------------
(* The getters' parsers and acceptance policies *)

TEMP_LAST == 4

\* budc_get_temperature_c's scan for the first digit, '-' or '.'
RECURSIVE NumStart(_)
NumStart(s) ==
  IF s # <<>> /\ ~isdigit(Head(s)) /\ Head(s) # "-" /\ Head(s) # "."
  THEN NumStart(Tail(s))
  ELSE s

TempInRange(v) == NumGE(v, TEMP_MIN) /\ NumLE(v, TEMP_MAX)

\* mutant: a zero reading is taken on any attempt
TempZeroOk_Always(v, idx) == TRUE

TempZeroOk(v, idx) == ~NumIsZero(v) \/ idx = TEMP_LAST

\* mutant: the final attempt takes whatever number it reads
TempAccept_FinalAny(r, idx) ==
  LET ns == NumStart(r)
  IN  /\ ns # <<>>
      /\ \/ idx = TEMP_LAST
         \/ (NumGE(atof(ns), TEMP_MIN) /\ NumLE(atof(ns), TEMP_MAX)
             /\ ~NumIsZero(atof(ns)))

TempAccept(r, idx) ==
  LET ns == NumStart(r)
  IN  /\ ns # <<>>
      /\ TempInRange(atof(ns))
      /\ TempZeroOk(atof(ns), idx)

\* mutant: a reply of five characters is long enough
IdentityAccept_FiveIsEnough(r) == Len(r) >= IDN_MIN_LEN

\* budc_get_identity: strlen(buffer) > 5
IdentityAccept(r) == Len(r) > IDN_MIN_LEN

\* what a getter requires of a response budc_send_raw_command returned with 0
GetterAccept(g, r, idx) ==
  CASE g = "identity" -> IdentityAccept(r)
    [] g = "temperature" -> TempAccept(r, idx)
    [] OTHER -> TRUE

LockValue(r) == atoi(r) = 1

\* mutant: the frequency is left in hertz
GetterValue_NoScale(g, r) ==
  CASE g = "identity" -> r
    [] g = "frequency" -> strtod(r).val
    [] g = "lock" -> LockValue(r)
    [] g = "temperature" -> atof(NumStart(r))
    [] g = "power" -> atoi(r)

\* what a getter stores in its output variable
GetterValue(g, r) ==
  CASE g = "identity" -> r
    [] g = "frequency" -> Scale(strtod(r).val, -9)
    [] g = "lock" -> LockValue(r)
    [] g = "temperature" -> atof(NumStart(r))
    [] g = "power" -> atoi(r)

\* ghost: what an attempt obtained
Classify(g, r, s) ==
  IF s # 0 THEN "fail"
  ELSE IF g = "identity" THEN (IF IdentityAccept(r) THEN "valid" ELSE "short")
  ELSE IF g = "temperature"
       THEN (IF NumStart(r) = <<>> THEN "nonum"
             ELSE IF ~TempInRange(atof(NumStart(r))) THEN "range"
             ELSE IF NumIsZero(atof(NumStart(r))) THEN "zero"
             ELSE "valid")
  ELSE "valid"

-----------------------------------------------------------------------------
(* The device: the reply texts it may send to each command *)

DevTexts(c) ==
  CASE c = CMD_LOCKQ -> {<<>>, <<"0">>, <<"1">>}
    [] c = CMD_TEMPQ -> {<<"0", ".", "0">>, <<"2", "5", ".", "5">>, <<"1", "5", "0">>,
                         <<"1", "5", "1">>, <<"-", "5", "0">>, <<"-", "5", "1">>}
    [] c = CMD_FREQQ -> {<<"1", "5", "0", "0", "0", "0", "0", "0", "0", "0">>}
    [] c = CMD_PWRQ -> {<<"1", "0">>}
    [] c = CMD_IDN -> {<<"a", "b", "c", "d", "e">>, <<"a", "b", "c", "d", "e", "f">>}
    [] OTHER -> {<<"O", "K">>}

Tagged(s, f) == [k \in 1..Len(s) |-> [ch |-> s[k], fresh |-> f]]
Chars(b) == [k \in 1..Len(b) |-> b[k].ch]
AllFresh(b) == \A k \in 1..Len(b) : b[k].fresh
Stale(q) == [k \in 1..Len(q) |-> [q[k] EXCEPT !.fresh = FALSE]]

-----------------------------------------------------------------------------
(* Time *)

Timeouts == {0, 400}

Timed == op \in {"wait_for_lock", "set_frequency_and_wait"}

\* the wall clock d ms later; MaxWall stands for MaxWall ms or more
Later(d) == Min(wall + d, MaxWall)

\* a blocking call of d ms: clock() advances with it only where clock() is
\* wall-clock time
Elapse(d) ==
  IF Timed
  THEN /\ wall' = Later(d)
       /\ clk' = IF platform = "win" THEN Later(d) ELSE clk
  ELSE UNCHANGED <<wall, clk>>

\* processor time the process has consumed since clock() was last read: on
\* POSIX clock() counts it and nothing else
CpuUse == IF platform = "win" THEN {0} ELSE {0, CpuTick}

PreRead == IF platform = "win" THEN WIN_PREREAD_DELAY_MS ELSE 0

-----------------------------------------------------------------------------
(* Initial state *)

\* before the first call: no handle, no port, nothing on the line
Boot ==
  /\ platform \in {"posix", "win"}
  /\ dev = "null"
  /\ op = "idle" /\ pc = "idle"
  /\ timeout = 0 /\ getter = "none" /\ i = 0 /\ cmd = <<>>
  /\ sres = 0 /\ resp = <<>> /\ respFresh = TRUE /\ gres = 0
  /\ out = "unset" /\ res = 0
  /\ wall = 0 /\ clk = 0 /\ start = 0
  /\ rxbuf = <<>> /\ devq = <<>> /\ io = <<>>
  /\ attempts = {} /\ nsend = 0 /\ nlockq = FALSE
  /\ devfreq = Decimal(FALSE, <<>>, 0)
  /\ port = "none" /\ conf = {} /\ wire = <<>>

\* no GUI: the library is called directly
NoGui ==
  /\ app = "off" /\ is_connected = FALSE /\ selected_port_idx = -1
  /\ port_count = 0 /\ script = <<>> /\ lost = FALSE

Init == Boot /\ NoGui /\ freq = FREQ_SCENARIO

-----------------------------------------------------------------------------
(* Connection *)

\* the sp_set_* calls of budc_connect
ConfigSteps == {"baudrate", "bits", "parity", "stopbits", "flowcontrol", "dtr", "rts"}

\* the results budc_connect can get from the calls it makes: the port lookup,
\* sp_open, the sp_set_* steps (at most one failing) and malloc
ConnectOutcomes ==
  [found : BOOLEAN, opened : BOOLEAN,
   failed : {{}} \cup {{s} : s \in ConfigSteps}, alloc : BOOLEAN]

\* budc_connect returns a handle
Connected(o) == o.found /\ o.opened /\ o.alloc

\* mutant: the sp_open failure path returns without sp_free_port
PortAfterConnect_NoFreeOnOpenFail(o) ==
  IF Connected(o) THEN "open"
  ELSE IF o.found /\ ~o.opened THEN "alloc"
  ELSE "none"

\* the port object after budc_connect: every failure path has released it
PortAfterConnect(o) == IF Connected(o) THEN "open" ELSE "none"

\* what budc_connect returns: the results of the sp_set_* steps are not looked at
ConnectReturn(o) == IF Connected(o) THEN "open" ELSE "null"

\* budc_connect, its result stored in dev
budc_connect ==
  /\ pc = "idle"
  /\ op' = "connect" /\ pc' = "done"
  /\ \E o \in ConnectOutcomes :
       /\ (~o.found => ~o.opened) /\ (~o.opened => (o.failed = {} /\ ~o.alloc))
       /\ dev' = ConnectReturn(o)
       /\ port' = PortAfterConnect(o)
       /\ conf' = o.failed
       /\ rxbuf' = IF Connected(o) THEN <<>> ELSE rxbuf
  /\ UNCHANGED <<platform, tuning, wire, timeout, getter, i, cmd, sres, resp,
                 respFresh, gres, out, res, wall, clk, start, devq, io, attempts,
                 nsend, nlockq>>

\* budc_connect, called by a caller that holds no live handle
Connect == dev # "open" /\ budc_connect /\ UNCHANGED gui

\* budc_disconnect(dev); the caller's pointer is `after` from then on.  A
\* pointer to a handle already freed is read and freed again: the call may
\* crash, may close and free the port a second time, or may show nothing.
budc_disconnect(after) ==
  /\ pc = "idle"
  /\ op' = "disconnect"
  /\ CASE dev = "null" ->
            /\ pc' = "done"
            /\ UNCHANGED <<dev, port, rxbuf>>
       [] dev = "open" ->
            /\ pc' = "done"
            /\ dev' = after /\ port' = "none" /\ rxbuf' = <<>>
       [] dev = "freed" ->
            \E o \in {"crash", "twice", "quiet"} :
              /\ pc' = IF o = "crash" THEN "fault" ELSE "done"
              /\ port' = IF o = "twice" THEN "corrupt" ELSE port
              /\ dev' = after
              /\ UNCHANGED rxbuf
  /\ UNCHANGED <<platform, tuning, conf, wire, timeout, getter, i, cmd, sres, resp,
                 respFresh, gres, out, res, wall, clk, start, devq, io, attempts,
                 nsend, nlockq>>

\* budc_disconnect called outside the GUI
Release(after) == budc_disconnect(after) /\ UNCHANGED gui

\* budc_disconnect by a caller that clears its pointer (gui.cpp)
Disconnect == Release("null")

\* budc_disconnect by a caller that keeps its pointer (cli.c)
DisconnectKeep == Release("freed")

-----------------------------------------------------------------------------
(* Entering the API *)

CallGetter(g) ==
  /\ pc = "idle"
  /\ op' = g /\ getter' = g /\ i' = 0 /\ pc' = "loop"
  /\ UNCHANGED <<platform, gui, tuning, handle, wire, dev, timeout, cmd, sres, resp, respFresh, gres, out, res,
                 wall, clk, start, rxbuf, devq, io, attempts, nsend, nlockq>>

\* budc_set_frequency_ghz, _mhz or _hz, as the unit of freq has it
CallSetFrequency ==
  /\ pc = "idle"
  /\ op' = "set_frequency" /\ cmd' = SetFreqCmd(freq) /\ pc' = "send"
  /\ UNCHANGED <<platform, gui, tuning, handle, wire, dev, timeout, getter, i, sres, resp, respFresh, gres, out,
                 res, wall, clk, start, rxbuf, devq, io, attempts, nsend, nlockq>>

PowerLevels == {-5, 0, 10}

CallSetPowerLevel(p) ==
  /\ pc = "idle"
  /\ op' = "set_power_level" /\ cmd' = SetPowerCmd(p) /\ pc' = "send"
  /\ UNCHANGED <<platform, gui, tuning, handle, wire, dev, timeout, getter, i, sres, resp,
                 respFresh, gres, out, res, wall, clk, start, rxbuf, devq, io,
                 attempts, nsend, nlockq>>

CallSaveSettings ==
  /\ pc = "idle"
  /\ op' = "save_settings" /\ cmd' = CMD_SAVE /\ pc' = "send"
  /\ UNCHANGED <<platform, gui, tuning, handle, wire, dev, timeout, getter, i, sres, resp,
                 respFresh, gres, out, res, wall, clk, start, rxbuf, devq, io,
                 attempts, nsend, nlockq>>

CallPreset ==
  /\ pc = "idle"
  /\ op' = "preset" /\ cmd' = CMD_PRESET /\ pc' = "send"
  /\ UNCHANGED <<platform, gui, tuning, handle, wire, dev, timeout, getter, i, sres, resp,
                 respFresh, gres, out, res, wall, clk, start, rxbuf, devq, io,
                 attempts, nsend, nlockq>>

\* a command line of n characters
Long(n) == [k \in 1..n |-> "A"]

\* the command lines a consumer passes to budc_send_raw_command itself: a
\* query, and lines as long as the GUI's 256-byte input field lets them be
RawCommands ==
  {CMD_TEMPQ, Long(FULL_COMMAND_SIZE - 3), Long(FULL_COMMAND_SIZE - 2),
   Long(FULL_COMMAND_SIZE - 1)}

\* budc_send_raw_command called by the CLI (--cmd) or the GUI (Direct SCPI Command)
CallRaw(c) ==
  /\ pc = "idle"
  /\ op' = "raw" /\ cmd' = c /\ pc' = "send"
  /\ UNCHANGED <<platform, gui, tuning, handle, wire, dev, timeout, getter, i, sres, resp,
                 respFresh, gres, out, res, wall, clk, start, rxbuf, devq, io,
                 attempts, nsend, nlockq>>

\* budc_send_raw_command(dev, c, NULL, 0) called with a query
CallRawNoBuffer(c) ==
  /\ pc = "idle"
  /\ op' = "raw_nobuf" /\ cmd' = c /\ pc' = "send"
  /\ UNCHANGED <<platform, gui, tuning, handle, wire, dev, timeout, getter, i, sres, resp,
                 respFresh, gres, out, res, wall, clk, start, rxbuf, devq, io,
                 attempts, nsend, nlockq>>

\* budc_wait_for_lock: locked = false; start = clock()
CallWaitForLock(t) ==
  /\ pc = "idle"
  /\ op' = "wait_for_lock" /\ timeout' = t /\ out' = FALSE /\ start' = clk
  /\ pc' = "wfl"
  /\ UNCHANGED <<platform, gui, tuning, handle, wire, dev, getter, i, cmd, sres, resp, respFresh, gres, res,
                 wall, clk, rxbuf, devq, io, attempts, nsend, nlockq>>

CallSetFrequencyAndWait(t) ==
  /\ pc = "idle"
  /\ op' = "set_frequency_and_wait" /\ timeout' = t /\ cmd' = CMD_SETFREQ
  /\ pc' = "send"
  /\ UNCHANGED <<platform, gui, tuning, handle, wire, dev, getter, i, sres, resp, respFresh, gres, out, res,
                 wall, clk, start, rxbuf, devq, io, attempts, nsend, nlockq>>

\* the call has returned res; the caller goes on
Return ==
  /\ pc = "done"
  /\ op' = "idle" /\ pc' = "idle"
  /\ timeout' = 0 /\ getter' = "none" /\ i' = 0 /\ cmd' = <<>>
  /\ sres' = 0 /\ resp' = <<>> /\ respFresh' = TRUE /\ gres' = 0
  /\ out' = "unset" /\ res' = 0
  /\ wall' = 0 /\ clk' = 0 /\ start' = 0 /\ io' = <<>>
  /\ attempts' = {} /\ nsend' = 0 /\ nlockq' = FALSE
  /\ conf' = {} /\ wire' = <<>>
  /\ UNCHANGED <<platform, gui, tuning, port, dev, rxbuf, devq>>

-----------------------------------------------------------------------------
(* budc_send_raw_command, one port operation at a time *)

\* mutant: a handle is taken for connected without a look at it
budc_is_connected_Always(d) == TRUE

\* dev != NULL && dev->port != NULL; the port of a live handle is never NULL
budc_is_connected(d) == d = "open"

\* snprintf(full_command, sizeof(full_command), "%s%s", command, "\r\n"):
\* what fits in the buffer before its terminating NUL
FullCommand(c) ==
  SubSeq(c \o COMMAND_TERMINATOR, 1, Min(Len(c) + 2, FULL_COMMAND_SIZE - 1))

\* the entry: the budc_is_connected check, then sp_flush(SP_BUF_BOTH)
SendEntry ==
  /\ pc = "send"
  /\ nsend' = nsend + 1
  /\ wire' = <<>>
  /\ IF ~budc_is_connected(dev)
     THEN /\ sres' = -1 /\ pc' = "sret" /\ io' = <<>>
          /\ UNCHANGED <<rxbuf, devq>>
     ELSE /\ rxbuf' = <<>>
          /\ devq' = Stale(devq)
          /\ io' = <<"flush">>
          /\ pc' = "write"
          /\ UNCHANGED sres
  /\ UNCHANGED <<platform, gui, tuning, handle, dev, op, timeout, getter, i, cmd, resp,
                 respFresh, gres, out, res, wall, clk, start, attempts, nlockq>>

\* !response || response_len == 0: the getters and the consumers' raw
\* commands pass a buffer, the setters pass NULL and 0
NoBuffer == getter = "none" /\ op # "raw"

\* mutant: a query is read for, buffer or not
SendWriteFull_ReadsWithoutBuffer ==
  /\ pc = "write"
  /\ Len(devq) < MaxPending
  /\ devq' = Append(devq, [c |-> cmd, fresh |-> TRUE])
  /\ wire' = FullCommand(cmd)
  /\ io' = Append(io, "write")
  /\ nlockq' = (nlockq \/ cmd = CMD_LOCKQ)
  /\ IF IsQuery(cmd)
     THEN /\ resp' = <<>> /\ respFresh' = TRUE /\ pc' = "read"
          /\ UNCHANGED sres
     ELSE /\ sres' = 0 /\ pc' = "sret"
          /\ UNCHANGED <<resp, respFresh>>
  /\ UNCHANGED <<platform, gui, tuning, handle, dev, op, timeout, getter, i, cmd, gres,
                 out, res, wall, clk, start, rxbuf, attempts, nsend>>

\* sp_blocking_write wrote the whole line; then, for a query, the test of the
\* response buffer
SendWriteFull ==
  /\ pc = "write"
  /\ Len(devq) < MaxPending
  /\ devq' = Append(devq, [c |-> cmd, fresh |-> TRUE])
  /\ wire' = FullCommand(cmd)
  /\ io' = Append(io, "write")
  /\ nlockq' = (nlockq \/ cmd = CMD_LOCKQ)
  /\ IF IsQuery(cmd)
     THEN IF NoBuffer
          THEN /\ sres' = -1 /\ pc' = "sret"
               /\ UNCHANGED <<resp, respFresh>>
          ELSE /\ resp' = <<>> /\ respFresh' = TRUE /\ pc' = "read"
               /\ UNCHANGED sres
     ELSE /\ sres' = 0 /\ pc' = "sret"
          /\ UNCHANGED <<resp, respFresh>>
  /\ UNCHANGED <<platform, gui, tuning, handle, dev, op, timeout, getter, i, cmd, gres,
                 out, res, wall, clk, start, rxbuf, attempts, nsend>>

\* mutant: after a short write a query goes on to read its reply
SendWriteShort_ThenReads ==
  /\ pc = "write"
  /\ \E k \in {0, Len(FullCommand(cmd)) - 1} : wire' = SubSeq(FullCommand(cmd), 1, k)
  /\ io' = Append(io, "write")
  /\ IF IsQuery(cmd)
     THEN /\ resp' = <<>> /\ respFresh' = TRUE /\ pc' = "read"
          /\ UNCHANGED sres
     ELSE /\ sres' = -1 /\ pc' = "sret"
          /\ UNCHANGED <<resp, respFresh>>
  /\ UNCHANGED <<platform, gui, tuning, handle, dev, op, timeout, getter, i, cmd, gres,
                 out, res, wall, clk, start, rxbuf, devq, attempts, nsend, nlockq>>

\* sp_blocking_write wrote less than the line, or failed
SendWriteShort ==
  /\ pc = "write"
  /\ \E k \in {0, Len(FullCommand(cmd)) - 1} : wire' = SubSeq(FullCommand(cmd), 1, k)
  /\ io' = Append(io, "write")
  /\ sres' = -1 /\ pc' = "sret"
  /\ UNCHANGED <<platform, gui, tuning, handle, dev, op, timeout, getter, i, cmd, resp, respFresh, gres,
                 out, res, wall, clk, start, rxbuf, devq, attempts, nsend, nlockq>>

\* sp_blocking_read_next returned the bytes that had arrived
SendReadData ==
  /\ pc = "read"
  /\ rxbuf # <<>>
  /\ LET n == Min(Len(rxbuf), RespCap(getter))
         got == SubSeq(rxbuf, 1, n)
         text == trim_whitespace(Chars(got))
     IN  /\ resp' = text
         /\ respFresh' = AllFresh(got)
         /\ rxbuf' = SubSeq(rxbuf, n + 1, Len(rxbuf))
         /\ sres' = IF Len(text) = 0 THEN -1 ELSE 0
  /\ io' = Append(io, "read")
  /\ pc' = "sret"
  /\ Elapse(PreRead)
  /\ UNCHANGED <<platform, gui, tuning, handle, wire, dev, op, timeout, getter, i, cmd, gres, out, res, start,
                 devq, attempts, nsend, nlockq>>

\* sp_blocking_read_next returned 0 after READ_TIMEOUT_MS without a byte
SendReadTimeout ==
  /\ pc = "read"
  /\ rxbuf = <<>>
  /\ io' = Append(io, "read0")
  /\ sres' = -1 /\ pc' = "sret"
  /\ Elapse(PreRead + READ_TIMEOUT_MS)
  /\ UNCHANGED <<platform, gui, tuning, handle, wire, dev, op, timeout, getter, i, cmd, resp, respFresh, gres,
                 out, res, start, rxbuf, devq, attempts, nsend, nlockq>>

\* sp_blocking_read_next returned an error
SendReadError ==
  /\ pc = "read"
  /\ io' = Append(io, "read0")
  /\ sres' = -1 /\ pc' = "sret"
  /\ Elapse(PreRead)
  /\ UNCHANGED <<platform, gui, tuning, handle, wire, dev, op, timeout, getter, i, cmd, resp, respFresh, gres,
                 out, res, start, rxbuf, devq, attempts, nsend, nlockq>>

-----------------------------------------------------------------------------
(* The getters' retry loop *)

\* the getter returns r: to the caller, or to budc_wait_for_lock
GetterReturns(r) ==
  /\ gres' = r
  /\ IF op \in Getters
     THEN pc' = "done" /\ res' = r /\ UNCHANGED getter
     ELSE pc' = "check" /\ getter' = "none" /\ UNCHANGED res

\* for (i = 0; i < ceiling; i++): the next attempt, or return -1
GetterLoop ==
  /\ pc = "loop"
  /\ IF i < Ceiling(getter)
     THEN /\ cmd' = GetterCmd(getter) /\ pc' = "send"
          /\ UNCHANGED <<gres, res, getter>>
     ELSE /\ GetterReturns(-1)
          /\ UNCHANGED cmd
  /\ UNCHANGED <<platform, gui, tuning, handle, wire, dev, op, timeout, i, sres, resp, respFresh, out, wall, clk,
                 start, rxbuf, devq, io, attempts, nsend, nlockq>>

\* mutant: a failed attempt clears the output variable
FailedOut_Cleared ==
  IF getter = "identity" /\ Len(io) = 3 THEN resp ELSE "cleared"

\* the caller's buffer of budc_get_identity is the response buffer itself
FailedOut ==
  IF getter = "identity" /\ Len(io) = 3 THEN resp ELSE out

\* the body of the loop after budc_send_raw_command returned
GetterCheck ==
  /\ pc = "sret" /\ getter # "none"
  /\ attempts' = attempts \cup {Classify(getter, resp, sres)}
  /\ IF sres = 0 /\ GetterAccept(getter, resp, i)
     THEN /\ out' = GetterValue(getter, resp)
          /\ GetterReturns(0)
          /\ UNCHANGED <<i, wall, clk>>
     ELSE /\ out' = FailedOut
          /\ Elapse(RetryDelay(getter))
          /\ i' = i + 1
          /\ pc' = "loop"
          /\ UNCHANGED <<gres, res, getter>>
  /\ UNCHANGED <<platform, gui, tuning, handle, wire, dev, op, timeout, cmd, sres, resp, respFresh, start, rxbuf,
                 devq, io, nsend, nlockq>>

-----------------------------------------------------------------------------
(* The setter, and the lock wait *)

\* mutant: budc_set_frequency_and_wait does not test the setter's result
SetterReturn_IgnoreFailure ==
  /\ pc = "sret" /\ getter = "none"
  /\ IF op = "set_frequency_and_wait"
     THEN /\ Elapse(SETTLE_DELAY_MS)
          /\ out' = FALSE /\ start' = clk'
          /\ pc' = "wfl"
          /\ UNCHANGED res
     ELSE /\ res' = sres /\ pc' = "done"
          /\ UNCHANGED <<out, start, wall, clk>>
  /\ UNCHANGED <<platform, gui, tuning, handle, wire, dev, op, timeout, getter, i, cmd, sres, resp, respFresh,
                 gres, rxbuf, devq, io, attempts, nsend, nlockq>>

\* mutant: a setter whose send failed sends once more
SetterReturn_RetryOnce ==
  /\ pc = "sret" /\ getter = "none"
  /\ IF sres # 0 /\ nsend < 2
     THEN /\ pc' = "send"
          /\ UNCHANGED <<res, out, start, wall, clk>>
     ELSE /\ res' = sres /\ pc' = "done"
          /\ UNCHANGED <<out, start, wall, clk>>
  /\ UNCHANGED <<platform, gui, tuning, handle, wire, dev, op, timeout, getter, i, cmd, sres, resp, respFresh,
                 gres, rxbuf, devq, io, attempts, nsend, nlockq>>

\* budc_send_raw_command returned to a setter or to a consumer, which returns
\* its result; budc_set_frequency_and_wait goes on if it is 0
SetterReturn ==
  /\ pc = "sret" /\ getter = "none"
  /\ IF op = "set_frequency_and_wait" /\ sres = 0
     THEN /\ Elapse(SETTLE_DELAY_MS)
          /\ out' = FALSE /\ start' = clk'
          /\ pc' = "wfl"
          /\ UNCHANGED res
     ELSE /\ res' = sres /\ pc' = "done"
          /\ UNCHANGED <<out, start, wall, clk>>
  /\ UNCHANGED <<platform, gui, tuning, handle, wire, dev, op, timeout, getter, i, cmd, sres, resp, respFresh,
                 gres, rxbuf, devq, io, attempts, nsend, nlockq>>

\* while (!locked): call budc_get_lock_status(dev, &locked)
WaitPoll ==
  /\ pc = "wfl"
  /\ IF out = TRUE
     THEN /\ res' = 0 /\ pc' = "done"
          /\ UNCHANGED <<getter, i, attempts, nsend>>
     ELSE /\ getter' = "lock" /\ i' = 0 /\ attempts' = {} /\ nsend' = 0
          /\ pc' = "loop"
          /\ UNCHANGED res
  /\ UNCHANGED <<platform, gui, tuning, handle, wire, dev, op, timeout, cmd, sres, resp, respFresh, gres, out,
                 wall, clk, start, rxbuf, devq, io, nlockq>>

\* mutant: the elapsed time is never found to exceed timeout_ms
TimedOut_Never(current) == FALSE

\* the test of the elapsed time against timeout_ms
TimedOut(current) == current - start > timeout

\* mutant: a failed budc_get_lock_status ends the wait
WaitCheck_AbortOnFailure ==
  /\ pc = "check"
  /\ IF gres = 0 /\ out = TRUE
     THEN /\ res' = 0 /\ pc' = "done"
          /\ UNCHANGED <<wall, clk>>
     ELSE IF gres # 0
     THEN /\ res' = -1 /\ pc' = "done"
          /\ UNCHANGED <<wall, clk>>
     ELSE \E c \in CpuUse :
            IF TimedOut(clk + c)
            THEN /\ res' = -1 /\ pc' = "done"
                 /\ clk' = clk + c
                 /\ UNCHANGED wall
            ELSE /\ wall' = Later(POLL_INTERVAL_MS)
                 /\ clk' = IF platform = "win" THEN Later(POLL_INTERVAL_MS)
                                               ELSE clk + c
                 /\ pc' = "wfl"
                 /\ UNCHANGED res
  /\ UNCHANGED <<platform, gui, tuning, handle, wire, dev, op, timeout, getter, i, cmd, sres, resp, respFresh,
                 gres, out, start, rxbuf, devq, io, attempts, nsend, nlockq>>

\* mutant: the timeout is tested before the poll's result
WaitCheck_TimeoutFirst ==
  /\ pc = "check"
  /\ \E c \in CpuUse :
       IF TimedOut(clk + c)
       THEN /\ res' = -1 /\ pc' = "done"
            /\ clk' = clk + c
            /\ UNCHANGED wall
       ELSE IF gres = 0 /\ out = TRUE
       THEN /\ res' = 0 /\ pc' = "done"
            /\ UNCHANGED <<wall, clk>>
       ELSE /\ wall' = Later(POLL_INTERVAL_MS)
            /\ clk' = IF platform = "win" THEN Later(POLL_INTERVAL_MS)
                                          ELSE clk + c
            /\ pc' = "wfl"
            /\ UNCHANGED res
  /\ UNCHANGED <<platform, gui, tuning, handle, wire, dev, op, timeout, getter, i, cmd, sres, resp, respFresh,
                 gres, out, start, rxbuf, devq, io, attempts, nsend, nlockq>>

\* the rest of the loop body: return on lock, else the timeout test, else sleep
WaitCheck ==
  /\ pc = "check"
  /\ IF gres = 0 /\ out = TRUE
     THEN /\ res' = 0 /\ pc' = "done"
          /\ UNCHANGED <<wall, clk>>
     ELSE \E c \in CpuUse :
            IF TimedOut(clk + c)
            THEN /\ res' = -1 /\ pc' = "done"
                 /\ clk' = clk + c
                 /\ UNCHANGED wall
            ELSE /\ wall' = Later(POLL_INTERVAL_MS)
                 /\ clk' = IF platform = "win" THEN Later(POLL_INTERVAL_MS)
                                               ELSE clk + c
                 /\ pc' = "wfl"
                 /\ UNCHANGED res
  /\ UNCHANGED <<platform, gui, tuning, handle, wire, dev, op, timeout, getter, i, cmd, sres, resp, respFresh,
                 gres, out, start, rxbuf, devq, io, attempts, nsend, nlockq>>

-----------------------------------------------------------------------------
(* The device *)

\* the device answers the oldest line it holds with the text t; the bytes
\* reach the input buffer of an open port
DeviceSends(t) ==
  /\ devq # <<>>
  /\ rxbuf' = IF dev = "open"
              THEN rxbuf \o Tagged(t \o COMMAND_TERMINATOR, Head(devq).fresh)
              ELSE rxbuf
  /\ devq' = Tail(devq)
  /\ UNCHANGED <<platform, gui, tuning, handle, wire, dev, op, timeout, pc, getter, i, cmd, sres, resp,
                 respFresh, gres, out, res, wall, clk, start, io, attempts, nsend,
                 nlockq>>

DeviceReply ==
  /\ devq # <<>>
  /\ \E t \in DevTexts(Head(devq).c) : DeviceSends(t)

\* a device whose PLL never locks
DeviceReplyUnlocked ==
  /\ devq # <<>>
  /\ \E t \in DevTexts(Head(devq).c) :
       /\ Head(devq).c = CMD_LOCKQ => ~LockValue(t)
       /\ DeviceSends(t)

\* the device answers with text that is no reply to anything
DeviceGarbage ==
  /\ devq # <<>>
  /\ DeviceSends(<<"x">>)

\* the device sends nothing for the oldest line it holds
DeviceSilent ==
  /\ devq # <<>>
  /\ devq' = Tail(devq)
  /\ UNCHANGED <<platform, gui, tuning, handle, wire, dev, op, timeout, pc, getter, i, cmd, sres, resp,
                 respFresh, gres, out, res, wall, clk, start, rxbuf, io, attempts,
                 nsend, nlockq>>

\* the power of ten that takes a value with the unit suffix u to hertz
UnitExponent(u) ==
  CASE u = <<"G", "H", "Z">> -> 9
    [] u = <<"M", "H", "Z">> -> 6
    [] u = <<>> -> 0

\* the line is a frequency setter's: "FREQ ", a number, a unit the device knows
IsFreqSet(c) ==
  /\ Len(c) > 5 /\ SubSeq(c, 1, 5) = <<"F", "R", "E", "Q", " ">>
  /\ strtod(SubSeq(c, 6, Len(c))).rest # SubSeq(c, 6, Len(c))
  /\ strtod(SubSeq(c, 6, Len(c))).rest \in {UnitSuffix(u) : u \in {"GHZ", "MHZ", "HZ"}}

\* the frequency, in hertz, that a frequency setter's line carries
HzOf(c) ==
  LET p == strtod(SubSeq(c, 6, Len(c)))
  IN  Scale(p.val, UnitExponent(p.rest))

\* a device that stores the frequency it is sent and answers FREQ? with it,
\* in hertz; it sends nothing else
DeviceEcho ==
  /\ devq # <<>>
  /\ devq' = Tail(devq)
  /\ IF IsFreqSet(Head(devq).c)
     THEN /\ devfreq' = HzOf(Head(devq).c)
          /\ UNCHANGED rxbuf
     ELSE /\ rxbuf' = IF Head(devq).c = CMD_FREQQ /\ dev = "open"
                      THEN rxbuf \o Tagged(Plain(devfreq) \o COMMAND_TERMINATOR,
                                           Head(devq).fresh)
                      ELSE rxbuf
          /\ UNCHANGED devfreq
  /\ UNCHANGED <<platform, gui, freq, handle, wire, dev, op, timeout, pc, getter, i, cmd,
                 sres, resp, respFresh, gres, out, res, wall, clk, start, io,
                 attempts, nsend, nlockq>>

-----------------------------------------------------------------------------
Host ==
  \/ Connect
  \/ Disconnect
  \/ \E g \in Getters : CallGetter(g)
  \/ CallSetFrequency
  \/ \E t \in Timeouts : CallWaitForLock(t)
  \/ \E t \in Timeouts : CallSetFrequencyAndWait(t)
  \/ Return
  \/ SendEntry
  \/ SendWriteFull
  \/ SendWriteShort
  \/ SendReadData
  \/ SendReadTimeout
  \/ SendReadError
  \/ GetterLoop
  \/ GetterCheck
  \/ SetterReturn
  \/ WaitPoll
  \/ WaitCheck

Device == DeviceReply \/ DeviceSilent

Next == Host \/ Device

Spec == Init /\ [][Next]_vars

\* the same host against a device that never reports lock
NextNeverLocked == Host \/ DeviceReplyUnlocked \/ DeviceSilent

SpecNeverLocked == Init /\ [][NextNeverLocked]_vars

\* the same program with callers that may keep the pointer to a handle they
\* have disconnected; such a pointer is passed to budc_disconnect or replaced
\* by a new budc_connect, nothing else
NextLifecycle ==
  \/ DisconnectKeep
  \/ (IF dev = "freed" /\ pc = "idle" THEN Disconnect \/ Connect ELSE Next)

SpecLifecycle == Init /\ [][NextLifecycle]_vars

-----------------------------------------------------------------------------
(* The lock wait alone, with the progress the platform guarantees *)

\* the steps of a call in progress
InCall ==
  \/ SendEntry
  \/ SendWriteFull
  \/ SendWriteShort
  \/ SendReadData
  \/ SendReadTimeout
  \/ SendReadError
  \/ GetterLoop
  \/ GetterCheck
  \/ WaitPoll
  \/ WaitCheck

\* a call in progress takes its next step; it sends a line once the device
\* has dealt with the line before, so a reply is late for its own read at most
HostStep == InCall /\ (pc = "send" => devq = <<>>)

\* the device deals with the line it was sent: it answers it or lets it pass
DeviceStep ==
  \/ DeviceReply
  \/ DeviceGarbage
  \/ DeviceSilent

\* a reading of clock() that finds it advanced
ClockAdvances == WaitCheck /\ clk' > clk

NextWait ==
  \/ Connect
  \/ Disconnect
  \/ \E t \in Timeouts : CallWaitForLock(t)
  \/ Return
  \/ HostStep
  \/ DeviceStep

\* The calling thread runs on: a call in progress takes its next step.  A line
\* that was written reaches the device.  Time advances: the process goes on
\* consuming processor time, so a wait that reads clock() again and again
\* finds it advanced again and again.  The device owes no answer.
SpecWait ==
  /\ Init /\ [][NextWait]_vars
  /\ WF_vars(HostStep)
  /\ WF_vars(DeviceStep)
  /\ SF_vars(ClockAdvances)

-----------------------------------------------------------------------------
(* A query sent without a response buffer, and the lock getter after it *)

NextNoBuffer ==
  \/ Connect
  \/ Disconnect
  \/ \E c \in {CMD_LOCKQ, CMD_TEMPQ} : CallRawNoBuffer(c)
  \/ CallGetter("lock")
  \/ Return
  \/ SendEntry
  \/ SendWriteFull
  \/ SendWriteShort
  \/ SendReadData
  \/ SendReadTimeout
  \/ SendReadError
  \/ GetterLoop
  \/ GetterCheck
  \/ SetterReturn
  \/ Device

SpecNoBuffer == Init /\ [][NextNoBuffer]_vars

-----------------------------------------------------------------------------
(* The GUI (src/src/gui.cpp): one event of a frame at a time.  A handler makes
   its library calls one after the other; script holds those still to make,
   and no other event is handled before it is empty *)

\* what budc_find_ports returns: -1, or the number of ports it listed
PortCounts == {-1} \cup (0..MaxPorts)

\* init_app_state
InitGui ==
  /\ Boot /\ freq = FREQ_SCENARIO
  /\ app = "running" /\ is_connected = FALSE /\ selected_port_idx = -1
  /\ port_count \in PortCounts /\ script = <<>> /\ lost = FALSE

\* the library calls of update_device_status and of update_all_values
UpdateDeviceStatus == <<"frequency", "lock", "temperature", "power">>
UpdateAllValues == <<"identity">> \o UpdateDeviceStatus

\* the buttons of a connected window, and the auto-refresh of a frame
Buttons == {"set_freq", "set_power", "preset", "save", "refresh_all", "send", "auto"}

\* the library calls of each handler; the second call of Set Freq and of
\* Set Power is made if the first returned 0
Handler(b) ==
  CASE b = "set_freq" -> <<"set_frequency", "frequency">>
    [] b = "set_power" -> <<"set_power_level", "power">>
    [] b = "preset" -> <<"preset">> \o UpdateAllValues
    [] b = "save" -> <<"save_settings">>
    [] b = "refresh_all" -> UpdateAllValues
    [] b = "send" -> <<"raw">> \o UpdateDeviceStatus
    [] b = "auto" -> UpdateDeviceStatus

\* a frame handles an event once the handler before it has returned
FrameReady == app = "running" /\ pc = "idle" /\ script = <<>>

\* ImGui::Combo("Serial Port", &selected_port_idx, items, port_count)
GuiSelectPort(k) ==
  /\ FrameReady /\ ~is_connected /\ port_count > 0
  /\ k \in 0..(port_count - 1)
  /\ selected_port_idx' = k
  /\ UNCHANGED <<app, is_connected, port_count, script, lost>>
  /\ UNCHANGED <<platform, dev, op, timeout, pc, getter, i, cmd, sres, resp,
                 respFresh, gres, out, res, wall, clk, start, rxbuf, devq, io,
                 attempts, nsend, nlockq, tuning, handle, wire>>

\* mutant: the Connect button is drawn whether connected or not
GuiConnect_AlwaysDrawn ==
  /\ FrameReady
  /\ IF selected_port_idx >= 0
     THEN /\ budc_connect
          /\ lost' = (lost \/ dev = "open")
          /\ is_connected' = (is_connected \/ dev' # "null")
          /\ script' = IF dev' # "null" THEN UpdateAllValues ELSE <<>>
          /\ UNCHANGED <<app, selected_port_idx, port_count>>
     ELSE UNCHANGED vars

\* the Connect button: state->dev = budc_connect(...); if (state->dev)
\* is_connected = true and update_all_values
GuiConnect ==
  /\ FrameReady /\ ~is_connected
  /\ IF selected_port_idx >= 0
     THEN /\ budc_connect
          /\ lost' = (lost \/ dev = "open")
          /\ is_connected' = (is_connected \/ dev' # "null")
          /\ script' = IF dev' # "null" THEN UpdateAllValues ELSE <<>>
          /\ UNCHANGED <<app, selected_port_idx, port_count>>
     ELSE UNCHANGED vars

\* the Disconnect button: budc_disconnect(state->dev); is_connected = false;
\* state->dev = NULL
GuiDisconnect ==
  /\ FrameReady /\ is_connected
  /\ budc_disconnect("null")
  /\ is_connected' = FALSE
  /\ UNCHANGED <<app, selected_port_idx, port_count, script, lost>>

\* the Refresh Ports button: refresh_port_list
GuiRefreshPorts ==
  /\ FrameReady /\ ~is_connected
  /\ selected_port_idx' = -1
  /\ port_count' \in PortCounts
  /\ UNCHANGED <<app, is_connected, script, lost>>
  /\ UNCHANGED <<platform, dev, op, timeout, pc, getter, i, cmd, sres, resp,
                 respFresh, gres, out, res, wall, clk, start, rxbuf, devq, io,
                 attempts, nsend, nlockq, tuning, handle, wire>>

\* a control of the connected window, or the auto-refresh
GuiButton(b) ==
  /\ FrameReady /\ is_connected
  /\ script' = Handler(b)
  /\ UNCHANGED <<app, is_connected, selected_port_idx, port_count, lost>>
  /\ UNCHANGED <<platform, dev, op, timeout, pc, getter, i, cmd, sres, resp,
                 respFresh, gres, out, res, wall, clk, start, rxbuf, devq, io,
                 attempts, nsend, nlockq, tuning, handle, wire>>

\* the library call a handler makes next, with state->dev
CallOf(c) ==
  CASE c \in Getters -> CallGetter(c)
    [] c = "set_frequency" -> CallSetFrequency
    [] c = "set_power_level" -> \E p \in PowerLevels : CallSetPowerLevel(p)
    [] c = "save_settings" -> CallSaveSettings
    [] c = "preset" -> CallPreset
    [] c = "raw" -> \E r \in RawCommands : CallRaw(r)

GuiCall ==
  /\ app = "running" /\ script # <<>>
  /\ CallOf(Head(script))

\* the call has returned to the handler, which goes on to its next call, or
\* ends if a setter it tests has failed
GuiCallReturned ==
  /\ app = "running" /\ pc = "done"
  /\ script # <<>> /\ Head(script) = op
  /\ script' = IF op \in {"set_frequency", "set_power_level"} /\ res # 0
                THEN <<>>
                ELSE Tail(script)
  /\ UNCHANGED <<app, is_connected, selected_port_idx, port_count, lost>>
  /\ UNCHANGED <<platform, dev, op, timeout, pc, getter, i, cmd, sres, resp,
                 respFresh, gres, out, res, wall, clk, start, rxbuf, devq, io,
                 attempts, nsend, nlockq, tuning, handle, wire>>

\* the call returns to the handler, which has taken note of its result
GuiReturn ==
  /\ IF script = <<>> THEN TRUE ELSE Head(script) # op
  /\ Return

\* the window is closed: the loop of main ends and cleanup_app_state runs,
\* if (state->is_connected) budc_disconnect(state->dev)
GuiClose ==
  /\ FrameReady
  /\ app' = "closed"
  /\ IF is_connected
     THEN budc_disconnect("freed")
     ELSE UNCHANGED <<platform, dev, op, timeout, pc, getter, i, cmd, sres, resp,
                      respFresh, gres, out, res, wall, clk, start, rxbuf, devq, io,
                      attempts, nsend, nlockq, tuning, handle, wire>>
  /\ UNCHANGED <<is_connected, selected_port_idx, port_count, script, lost>>

NextGui ==
  \/ \E k \in 0..(MaxPorts - 1) : GuiSelectPort(k)
  \/ GuiConnect
  \/ GuiDisconnect
  \/ GuiRefreshPorts
  \/ \E b \in Buttons : GuiButton(b)
  \/ GuiCall
  \/ GuiCallReturned
  \/ GuiReturn
  \/ GuiClose
  \/ HostStep
  \/ SetterReturn
  \/ Device

SpecGui == InitGui /\ [][NextGui]_vars

-----------------------------------------------------------------------------
(* The setters and the raw commands alone, for any frequency the caller may
   tune to *)

D(m, e) == [neg |-> FALSE, m |-> m, e |-> e]

\* 5.5 GHz, 12.3456789012 GHz, 5500 MHz, 12345.678901 MHz, 5500000000 Hz,
\* 10000000000 Hz, 12345678901 Hz
FreqArgs ==
  {FREQ_SCENARIO,
   [unit |-> "GHZ", v |-> D(<<1, 2, 3, 4, 5, 6, 7, 8, 9, 0, 1, 2>>, 2)],
   [unit |-> "MHZ", v |-> D(<<5, 5>>, 4)],
   [unit |-> "MHZ", v |-> D(<<1, 2, 3, 4, 5, 6, 7, 8, 9, 0, 1>>, 5)],
   [unit |-> "HZ", v |-> D(<<5, 5>>, 10)],
   [unit |-> "HZ", v |-> D(<<1>>, 11)],
   [unit |-> "HZ", v |-> D(<<1, 2, 3, 4, 5, 6, 7, 8, 9, 0, 1>>, 11)]}

InitTuned == Boot /\ NoGui /\ freq \in FreqArgs

NextCommands ==
  \/ Connect
  \/ Disconnect
  \/ CallSetFrequency
  \/ \E p \in PowerLevels : CallSetPowerLevel(p)
  \/ CallSaveSettings
  \/ CallPreset
  \/ \E c \in RawCommands : CallRaw(c)
  \/ Return
  \/ SendEntry
  \/ SendWriteFull
  \/ SendWriteShort
  \/ SendReadData
  \/ SendReadTimeout
  \/ SendReadError
  \/ SetterReturn
  \/ Device

SpecCommands == InitTuned /\ [][NextCommands]_vars

\* setting the frequency and reading it back, against the echoing device; a
\* simulated device, it has dealt with a line before the host does anything more
NextRoundTrip ==
  \/ DeviceEcho
  \/ /\ devq = <<>>
     /\ \/ Connect
        \/ Disconnect
        \/ CallSetFrequency
        \/ CallGetter("frequency")
        \/ Return
        \/ SendEntry
        \/ SendWriteFull
        \/ SendWriteShort
        \/ SendReadData
        \/ SendReadError
        \/ SetterReturn
        \/ GetterLoop
        \/ GetterCheck

SpecRoundTrip == InitTuned /\ [][NextRoundTrip]_vars

-----------------------------------------------------------------------------
(* One reply, of any text: the host has written a getter's query on some
   attempt, the attempts before it having failed, and the device's reply line
   is in the input buffer *)

ReplyAlphabet == {"0", "1", "5", "-", ".", "a", " "}

ReplyTexts == UNION {[1..n -> ReplyAlphabet] : n \in 0..MaxLen}

InitReply ==
  /\ platform \in {"posix", "win"}
  /\ dev = "open"
  /\ op \in Getters /\ getter = op
  /\ i \in 0..(Ceiling(op) - 1)
  /\ pc = "read"
  /\ cmd = GetterCmd(op)
  /\ \E t \in ReplyTexts : rxbuf = Tagged(t \o COMMAND_TERMINATOR, TRUE)
  /\ devq = <<>>
  /\ io = <<"flush", "write">>
  /\ nsend = i + 1
  /\ attempts = IF i = 0 THEN {} ELSE {"fail"}
  /\ nlockq = (op = "lock")
  /\ timeout = 0 /\ sres = IF i = 0 THEN 0 ELSE -1
  /\ resp = <<>> /\ respFresh = TRUE /\ gres = 0
  /\ out = "unset" /\ res = 0
  /\ wall = 0 /\ clk = 0 /\ start = 0
  /\ freq = FREQ_SCENARIO /\ devfreq = Decimal(FALSE, <<>>, 0)
  /\ port = "open" /\ conf = {} /\ wire = FullCommand(cmd)
  /\ NoGui

NextReply == SendReadData \/ GetterCheck \/ GetterLoop \/ Return

SpecReply == InitReply /\ [][NextReply]_vars

-----------------------------------------------------------------------------
(* The claims *)

WaitOps == {"wait_for_lock", "set_frequency_and_wait"}

\* a getter has just returned gres: to the caller, or to budc_wait_for_lock
GetterReturned == (op \in Getters /\ pc = "done") \/ pc = "check"
ReturnedGetter == IF op \in Getters THEN op ELSE "lock"

\* C1: a getter all of whose attempts failed at the transport returns failure,
\* and a getter returns failure only after exactly its number of
\* budc_send_raw_command attempts: 5 for the temperature, 3 for the others.
C1_FailureAfterExactlyCeiling ==
  GetterReturned =>
    /\ (attempts \subseteq {"fail"}) => gres = -1
    /\ gres = -1 => nsend = (IF ReturnedGetter = "temperature" THEN 5 ELSE 3)

C1_Witness ==
  /\ op = "temperature" /\ pc = "done" /\ dev = "open"
  /\ attempts = {"fail"} /\ gres = -1 /\ nsend = 5

\* what C2 calls a valid response on attempt n, and the value parsed from it
C2_Valid(g, r, n) ==
  CASE g = "identity" -> Len(r) > 5
    [] g = "temperature" ->
         /\ r # <<>> /\ (isdigit(Head(r)) \/ Head(r) \in {"-", "."})
         /\ NumGE(atof(r), -50) /\ NumLE(atof(r), 150)
         /\ (atof(r).n # 0 \/ n = 5)
    [] OTHER -> r # <<>>

C2_Parsed(g, r) ==
  CASE g = "identity" -> r
    [] g = "frequency" -> Scale(strtod(r).val, -9)
    [] g = "lock" -> (atoi(r) = 1)
    [] g = "temperature" -> atof(r)
    [] g = "power" -> atoi(r)

\* C2: when the attempts before the N-th failed at the transport and the N-th
\* budc_send_raw_command returns a valid response, the getter returns success
\* at once with the value parsed from that response, N sends having been made.
C2_ValidReplyEndsRetry ==
  [][(/\ pc = "sret" /\ getter \in Getters
      /\ attempts \subseteq {"fail"}
      /\ sres = 0 /\ C2_Valid(getter, resp, nsend)
      /\ pc' # "sret")
     => (/\ pc' \in {"done", "check"}
         /\ gres' = 0
         /\ out' = C2_Parsed(getter, resp)
         /\ nsend = i + 1 /\ nsend' = nsend
         /\ nsend <= (IF getter = "temperature" THEN 5 ELSE 3)
         /\ devq' = devq)]_vars

C2_Witness ==
  /\ op = "frequency" /\ pc = "done" /\ gres = 0 /\ nsend = 3
  /\ attempts = {"fail", "valid"}
  /\ out = [neg |-> FALSE, m |-> <<1, 5>>, e |-> 1]

\* C3: the response budc_send_raw_command returns with success to a query was
\* sent by the device in reply to that invocation's own command line.
C3_ResponseAnswersOwnCommand ==
  (pc = "sret" /\ sres = 0 /\ IsQuery(cmd)) => respFresh

\* C4: against a device that never reports lock, budc_wait_for_lock(T) returns
\* failure between T and T + 200 ms of wall-clock time after the call.
C4_NeverLockedFailsWithinOnePoll ==
  (op = "wait_for_lock" /\ pc = "done" /\ dev = "open") =>
    (res = -1 /\ wall >= timeout /\ wall <= timeout + 200)

\* C5: once the frequency setter of budc_set_frequency_and_wait has failed,
\* the call returns failure and no LOCK? line is written.
C5_FailedSetNeverPolls ==
  (op = "set_frequency_and_wait" /\ cmd = CMD_SETFREQ /\ sres # 0) =>
    /\ pc \in {"sret", "done"}
    /\ ~nlockq
    /\ pc = "done" => res = -1

C5_Witness ==
  /\ op = "set_frequency_and_wait" /\ pc = "done" /\ res = -1
  /\ dev = "open" /\ io = <<"flush", "write">> /\ ~nlockq

\* C6: budc_wait_for_lock returns only with success after a poll that saw the
\* lock, or with failure after a poll that did not and a clock reading more
\* than timeout_ms past the start; a failed budc_get_lock_status alone does
\* not end the wait.
C6_WaitEndsOnLockOrTimeout ==
  (op \in WaitOps /\ pc = "done" /\ cmd = CMD_LOCKQ) =>
    \/ res = 0 /\ gres = 0 /\ out = TRUE
    \/ res = -1 /\ ~(gres = 0 /\ out = TRUE) /\ clk - start > timeout

C6_Witness ==
  /\ op = "wait_for_lock" /\ pc = "wfl" /\ dev = "open"
  /\ gres = -1 /\ wall >= 200 /\ timeout = 400

\* C7: a poll that sees the lock makes budc_wait_for_lock return success at
\* once, whatever the clock says, without a further LOCK? query or sleep; and
\* every round of the loop polls before the timeout is looked at.
C7_LockedPollReturnsSuccess ==
  [][/\ (pc = "check" /\ gres = 0 /\ out = TRUE /\ pc' # "check")
        => (/\ pc' = "done" /\ res' = 0
            /\ wall' = wall /\ nsend' = nsend /\ devq' = devq)
     /\ (pc = "wfl" /\ pc' # "wfl")
        => (pc' = "loop" /\ getter' = "lock" /\ i' = 0 /\ res' = res)]_vars

C7_Witness ==
  /\ op = "wait_for_lock" /\ pc = "done" /\ res = 0
  /\ timeout = 400 /\ wall >= 400 /\ clk - start > timeout

\* the reply is a numeral of value 1 and nothing else
C8_ExactlyOne(r) ==
  /\ r # <<>>
  /\ \A k \in 1..Len(r) : isdigit(r[k])
  /\ DigitsValue(r, 0) = 1

\* C8: budc_get_lock_status reports locked exactly when the reply is the
\* value 1; any other reply, malformed ones included, reads as unlocked.
C8_LockedIffReplyIsOne ==
  (op = "lock" /\ pc = "done" /\ gres = 0) => (out = TRUE <=> C8_ExactlyOne(resp))

\* C9: budc_get_temperature_c returns a zero reading only from its 5th
\* attempt, takes it on the 5th, and against a device that always answers
\* 0.0 returns success with 0.0 after exactly 5 queries.
C9_ZeroOnlyOnFifth ==
  (op = "temperature" /\ pc = "done") =>
    /\ (gres = 0 /\ out.n = 0) => nsend = 5
    /\ (sres = 0 /\ resp = <<"0", ".", "0">> /\ nsend = 5) => (gres = 0 /\ out.n = 0)
    /\ attempts = {"zero"} => (gres = 0 /\ nsend = 5)

C9_Witness ==
  /\ op = "temperature" /\ pc = "done" /\ gres = 0
  /\ attempts = {"zero"} /\ nsend = 5 /\ out.n = 0

\* C10: budc_get_temperature_c returns success only with a value in
\* [-50, 150]; replies out of the range fail every attempt, the 5th included,
\* and the values -50 and 150 themselves are taken.
C10_InRangeOnly ==
  (op = "temperature" /\ pc = "done") =>
    /\ gres = 0 => (NumGE(out, -50) /\ NumLE(out, 150))
    /\ attempts = {"range"} => (gres = -1 /\ nsend = 5)
    /\ (sres = 0 /\ resp \in {<<"1", "5", "0">>, <<"-", "5", "0">>}) => gres = 0

C10_Witness ==
  /\ op = "temperature" /\ pc = "done" /\ gres = -1
  /\ attempts = {"range"} /\ nsend = 5 /\ resp = <<"1", "5", "1">>

\* C11: a setter makes one budc_send_raw_command invocation, which flushes
\* once, writes at most once and never reads; it returns 0 exactly when the
\* whole line, command and CR LF, was written, whatever the device sends.
C11_SetterSendsOnce ==
  op \in Setters =>
    /\ nsend <= 1
    /\ io \in {<<>>, <<"flush">>, <<"flush", "write">>}
    /\ pc = "done" =>
         /\ nsend = 1
         /\ res \in {0, -1}
         /\ res = 0 <=> wire = cmd \o <<"\r", "\n">>
         /\ dev = "open" => io = <<"flush", "write">>

C11_Witness ==
  /\ op = "set_frequency" /\ freq.unit = "MHZ" /\ pc = "done" /\ res = 0
  /\ rxbuf # <<>> /\ wire = cmd \o <<"\r", "\n">>

\* the caller's frequency in GHz
C12_GHz(f) ==
  Scale(f.v, (CASE f.unit = "GHZ" -> 9 [] f.unit = "MHZ" -> 6 [] f.unit = "HZ" -> 0) - 9)

\* C12: against a device that stores the frequency it is sent and echoes it in
\* hertz, a successful budc_get_frequency_ghz returns the value given to
\* budc_set_frequency_ghz, _mhz or _hz, converted to GHz, within 1e-6.
C12_RoundTripWithinTolerance ==
  (op = "frequency" /\ pc = "done" /\ gres = 0 /\ devfreq.m # <<>>) =>
    Within(out, C12_GHz(freq), [neg |-> FALSE, m |-> <<1>>, e |-> -5])

C12_Witness ==
  /\ op = "frequency" /\ pc = "done" /\ gres = 0
  /\ freq.unit = "HZ" /\ Len(freq.v.m) = 11
  /\ out = [neg |-> FALSE, m |-> <<1, 2, 3, 4, 5, 6, 7, 8, 9>>, e |-> 2]

\* C13: budc_connect returns a handle only for a port that is open and whose
\* every configuration step (baud rate, bits, parity, stop bits, flow control,
\* DTR, RTS) succeeded; otherwise it returns no handle.
C13_HandleOnlyIfConfigured ==
  (op = "connect" /\ pc = "done" /\ dev = "open") => (port = "open" /\ conf = {})

\* C14: when budc_connect returns no handle, whichever call failed, no port is
\* left open and no port object is left allocated.
C14_FailedConnectReleasesAll ==
  (op = "connect" /\ pc = "done" /\ dev # "open") => port = "none"

C14_Witness ==
  /\ op = "connect" /\ pc = "done" /\ dev = "null"
  /\ conf = {"rts"} /\ port = "none"

\* C15: budc_disconnect never faults and never closes or frees a port twice,
\* whether its handle is null, live or already disconnected.
C15_DisconnectIdempotent ==
  op = "disconnect" => (pc # "fault" /\ port # "corrupt")

\* C16: a write that budc_send_raw_command takes for complete has put on the
\* line the caller's command followed by CR LF, whatever its length.
C16_WrittenLineIsCommandCRLF ==
  (Len(io) >= 2 /\ (pc = "read" \/ (pc = "sret" /\ sres = 0))) =>
    wire = cmd \o <<"\r", "\n">>

\* C17: budc_send_raw_command returns 0 for a query only after a read that
\* returned bytes, with a response that is not empty and has no white space
\* at either end; no getter returns success on an empty response.
C17_QuerySuccessHasResponse ==
  /\ (pc = "sret" /\ IsQuery(cmd) /\ sres = 0) =>
       /\ io = <<"flush", "write", "read">>
       /\ resp # <<>>
       /\ ~isspace(resp[1]) /\ ~isspace(resp[Len(resp)])
  /\ (GetterReturned /\ gres = 0) => resp # <<>>

C17_Witness ==
  /\ pc = "sret" /\ cmd = CMD_LOCKQ /\ io = <<"flush", "write", "read">>
  /\ sres = -1 /\ resp = <<>>

C19_NoExecutionWithoutHandle ==
  (dev # "open" /\ op \notin {"idle", "connect", "disconnect"}) =>
    /\ io = <<>> /\ wire = <<>>
    /\ pc = "sret" => sres = -1
    /\ pc = "done" => res = -1

C19_Witness ==
  /\ dev = "null" /\ op = "temperature" /\ pc = "done"
  /\ res = -1 /\ nsend = 5 /\ io = <<>>

\* C20: whatever the timeout and whatever the device does, a budc_wait_for_lock
\* that has been called returns.
C20_WaitReturns == (op = "wait_for_lock") ~> (pc = "done")

C20_Witness ==
  /\ op = "wait_for_lock" /\ pc = "done" /\ res = -1
  /\ platform = "posix" /\ dev = "open" /\ timeout = 400 /\ wall >= MaxWall

\* C21: budc_get_identity returns success only with a trimmed response of
\* more than 5 characters; every attempt, one answered with 5 characters or
\* fewer like one that failed at the transport, uses up one of the retries,
\* and a device that always answers so short gets failure after 3 attempts.
C21_IdentityNeedsLongReply ==
  /\ (op = "identity" /\ pc = "done") =>
       /\ gres = 0 => (/\ sres = 0 /\ Len(resp) > 5
                       /\ resp = trim_whitespace(resp) /\ out = resp)
       /\ attempts = {"short"} => (gres = -1 /\ nsend = 3 /\ i = 3)
  /\ (op = "identity" /\ pc = "loop") => nsend = i
  /\ (op = "identity" /\ pc = "sret" /\ sres = 0 /\ Len(resp) <= 5) =>
       "valid" \notin attempts

C21_Witness ==
  /\ op = "identity" /\ pc = "done" /\ dev = "open"
  /\ gres = -1 /\ attempts = {"short"} /\ nsend = 3
  /\ resp = <<"a", "b", "c", "d", "e">>

\* C22: a budc_send_raw_command on a connected handle flushes once, then
\* writes, then reads: it reads only for a command with a '?' in it and only
\* after the whole line was written, and a short write returns failure with
\* no read attempted.  Without a connected handle it does none of the three.
C22_FlushThenWriteThenRead ==
  /\ io \in {<<>>, <<"flush">>, <<"flush", "write">>,
              <<"flush", "write", "read">>, <<"flush", "write", "read0">>}
  /\ io # <<>> => dev = "open"
  /\ pc = "write" => io = <<"flush">>
  /\ pc = "read" => io = <<"flush", "write">>
  /\ (pc = "read" \/ Len(io) = 3) => (IsQuery(cmd) /\ wire = FullCommand(cmd))
  /\ (pc = "sret" /\ dev = "open" /\ wire # FullCommand(cmd)) =>
       (sres = -1 /\ io = <<"flush", "write">>)
  /\ (pc = "sret" /\ dev = "open" /\ ~IsQuery(cmd)) => io = <<"flush", "write">>

C22_Witness ==
  /\ pc = "sret" /\ dev = "open" /\ cmd = CMD_LOCKQ
  /\ wire = SubSeq(FullCommand(cmd), 1, Len(FullCommand(cmd)) - 1)
  /\ io = <<"flush", "write">> /\ sres = -1

\* C23: budc_get_temperature_c returns success only on a reply that has a
\* digit in it.
C23_NoDigitNoTemperature ==
  (op = "temperature" /\ pc = "done" /\ gres = 0) =>
    \E k \in 1..Len(resp) : isdigit(resp[k])

\* C24: a query given to budc_send_raw_command without a response buffer, on
\* a connected handle, returns failure after the flush and the write and with
\* no read; what the device answers leaves the input buffer only by a flush
\* of a later command, by that command's read, or by a disconnect.
C24_QueryWithoutBufferIsWritten ==
  /\ [](op = "raw_nobuf" =>
         /\ pc # "read"
         /\ io \in {<<>>, <<"flush">>, <<"flush", "write">>}
         /\ (pc \in {"sret", "done"} /\ dev = "open") =>
              (sres = -1 /\ io = <<"flush", "write">>)
         /\ pc = "done" => res = -1)
  /\ [][(Len(rxbuf') < Len(rxbuf)) =>
          \/ pc = "send" /\ io' = <<"flush">>
          \/ pc = "read" /\ op # "raw_nobuf"
          \/ op' = "disconnect"]_vars

C24_Witness ==
  /\ op = "raw_nobuf" /\ pc = "done" /\ res = -1 /\ dev = "open"
  /\ cmd = CMD_LOCKQ /\ wire = FullCommand(cmd) /\ io = <<"flush", "write">>
  /\ Chars(rxbuf) = <<"1">> \o COMMAND_TERMINATOR

\* C25: until budc_get_frequency_ghz, budc_get_lock_status,
\* budc_get_temperature_c or budc_get_power_level returns success, the
\* caller's output variable holds what it held before the call; so it does
\* when the getter returns failure, to the caller or to budc_wait_for_lock.
C25_FailureLeavesOutput ==
  /\ (op \in {"frequency", "lock", "temperature", "power"}
      /\ ~(pc = "done" /\ gres = 0)) => out = "unset"
  /\ (op = "wait_for_lock" /\ ~(pc \in {"check", "done"} /\ gres = 0)) => out = FALSE

C25_Witness ==
  /\ op = "temperature" /\ pc = "done" /\ dev = "open"
  /\ gres = -1 /\ res = -1 /\ attempts = {"range"} /\ out = "unset"

\* the library calls the GUI makes with state->dev
CoreOps == Getters \cup Setters \cup {"raw"}

\* what C26 says of handles and of the port index, in every state
C26_Handles ==
  /\ op \in CoreOps => dev = "open"
  /\ port # "corrupt" /\ pc # "fault"
  /\ ~lost
  /\ is_connected => (selected_port_idx >= 0 /\ selected_port_idx < port_count)

====
